---- MODULE Spec2Model ----
(***************************************************************************)
(* Model of Blog-Transfer: the MathJax converter (converter.py) and the    *)
(* file pipeline (file_processor.py).  Texts are sequences of one-character*)
(* strings; the regular expressions of the source are modelled by the      *)
(* leftmost, priority-ordered match a backtracking engine finds.           *)
(***************************************************************************)
EXTENDS Integers, Sequences, FiniteSets, TLC

VARIABLES
    input,      \* the text handed to the operation under study
    text,       \* the text as it stands after the steps taken so far
    prev,       \* the text before the last step
    pc,         \* position in the pipeline / call sequence
    matches,    \* the regex matches the last step replaced, in order
    assets,     \* ../assets/pdf/posts: file name -> content (function)
    outdir,     \* the output directory: "absent", or file name -> content
    opcount,    \* number of process_file calls made so far
    pdfcount,   \* number of PDF copies made so far
    lastop      \* record describing the last process_file call

vars == <<input, text, prev, pc, matches, assets, outdir, opcount, pdfcount, lastop>>

----------------------------------------------------------------------------
(* Characters and strings *)

BS == "\\"
NL == "\n"

WhiteSpace == {" ", "\t", "\n", "\r", "\f"}

LowerCase == {"a","b","c","d","e","f","g","h","i","j","k","l","m",
              "n","o","p","q","r","s","t","u","v","w","x","y","z"}
UpperCase == {"A","B","C","D","E","F","G","H","I","J","K","L","M",
              "N","O","P","Q","R","S","T","U","V","W","X","Y","Z"}
Letter == LowerCase \cup UpperCase
Digit == {"0","1","2","3","4","5","6","7","8","9"}
WordChar == Letter \cup Digit \cup {"_"}

\* F(v), with v evaluated once and handed to F as a value (what a local
\* variable of the source is)
Bind(v, F(_)) == CHOOSE r \in {F(x) : x \in {v}} : TRUE

\* the least element of a set of positive numbers, 0 for the empty set
First(S) ==
    Bind(S, LAMBDA v : IF v = {} THEN 0
                       ELSE CHOOSE x \in v : \A y \in v : x <= y)

\* the greatest element of a set of positive numbers, 0 for the empty set
Last(S) ==
    Bind(S, LAMBDA v : IF v = {} THEN 0
                       ELSE CHOOSE x \in v : \A y \in v : x >= y)

\* t[i..j] as a sequence (empty when j < i)
Slice(t, i, j) == IF j < i THEN <<>> ELSE SubSeq(t, i, j)

\* does the literal lit stand in t at position i
LitAt(t, i, lit) ==
    /\ i >= 1
    /\ i + Len(lit) - 1 <= Len(t)
    /\ \A k \in 1..Len(lit) : t[i + k - 1] = lit[k]

\* length of the longest run of characters of class cls starting at t[i]
RECURSIVE RunLen(_, _, _)
RunLen(t, i, cls) ==
    IF i <= Len(t) /\ t[i] \in cls THEN 1 + RunLen(t, i + 1, cls) ELSE 0

RECURSIVE Flatten(_)
Flatten(ss) == IF ss = <<>> THEN <<>> ELSE Head(ss) \o Flatten(Tail(ss))

RECURSIVE Repeat(_, _)
Repeat(s, n) == IF n <= 0 THEN <<>> ELSE s \o Repeat(s, n - 1)

\* str.strip(): drop leading and trailing whitespace
Strip(t) ==
    Bind(t, LAMBDA v :
        Slice(v, RunLen(v, 1, WhiteSpace) + 1,
              Last({i \in 1..Len(v) : v[i] \notin WhiteSpace})))

\* str.replace(c, ""): drop every occurrence of the character c
RECURSIVE RemoveChar(_, _)
RemoveChar(t, c) ==
    IF t = <<>> THEN <<>>
    ELSE IF Head(t) = c THEN RemoveChar(Tail(t), c)
    ELSE <<Head(t)>> \o RemoveChar(Tail(t), c)

\* str.split("\n")
RECURSIVE SplitFrom(_, _, _)
SplitFrom(t, i, cur) ==
    IF i > Len(t) THEN <<cur>>
    ELSE IF t[i] = NL THEN <<cur>> \o SplitFrom(t, i + 1, <<>>)
    ELSE SplitFrom(t, i + 1, Append(cur, t[i]))

SplitLines(t) == SplitFrom(t, 1, <<>>)

\* "\n".join(lines)
RECURSIVE JoinLines(_)
JoinLines(ls) ==
    IF ls = <<>> THEN <<>>
    ELSE IF Len(ls) = 1 THEN ls[1]
    ELSE ls[1] \o <<NL>> \o JoinLines(Tail(ls))

----------------------------------------------------------------------------
(* config.standard_output_style *)

math_inline_surrounding == <<"$", "$">>
math_block_begin == <<"$", "$">>
math_block_end == <<"$", "$", NL>>

----------------------------------------------------------------------------
(* MathJax_Converter._sanitize_special_chars *)

Vert == <<BS, "v", "e", "r", "t">>

\* re.sub(r'\|', r'\\vert ', text)
RECURSIVE ReplaceBars(_)
ReplaceBars(t) ==
    IF t = <<>> THEN <<>>
    ELSE IF Head(t) = "|" THEN Vert \o <<" ">> \o ReplaceBars(Tail(t))
    ELSE <<Head(t)>> \o ReplaceBars(Tail(t))

\* the word boundary \b between t[e] (a letter) and t[e+1]
BoundaryAfter(t, e) == e >= Len(t) \/ t[e + 1] \notin WordChar

\* length of the match of (_|\^)(\\[a-zA-Z]+)\b at i, 0 when there is none.
\* A shorter run of letters is followed by a letter, so only the full run
\* can end on a word boundary.
CommandMatchLen(t, i) ==
    IF i + 1 <= Len(t) /\ t[i] \in {"_", "^"} /\ t[i + 1] = BS
    THEN LET n == RunLen(t, i + 2, Letter)
         IN  IF n >= 1 /\ BoundaryAfter(t, i + 1 + n) THEN n + 2 ELSE 0
    ELSE 0

\* re.sub(r'(_|\^)(\\[a-zA-Z]+)\b', r'\1{\2}', text)
RECURSIVE BraceCommands(_, _)
BraceCommands(t, i) ==
    IF i > Len(t) THEN <<>>
    ELSE Bind(CommandMatchLen(t, i), LAMBDA n :
             IF n > 0
             THEN <<t[i], "{">> \o Slice(t, i + 1, i + n - 1) \o <<"}">>
                  \o BraceCommands(t, i + n)
             ELSE <<t[i]>> \o BraceCommands(t, i + 1))

\* the class [^{}\s\\]
MutSingleArgChar(c) == c \notin WhiteSpace \cup {BS}
SingleArgChar(c) == c \notin WhiteSpace \cup {"{", "}", BS}

\* re.sub(r'([_^])([^{}\s\\])', r'\1{\2}', text)
RECURSIVE BraceSingles(_, _)
BraceSingles(t, i) ==
    IF i > Len(t) THEN <<>>
    ELSE IF i + 1 <= Len(t) /\ t[i] \in {"_", "^"} /\ SingleArgChar(t[i + 1])
    THEN <<t[i], "{", t[i + 1], "}">> \o BraceSingles(t, i + 2)
    ELSE <<t[i]>> \o BraceSingles(t, i + 1)

\* re.sub(r' {2,}', ' ', text)
RECURSIVE CollapseSpaces(_, _)
CollapseSpaces(t, i) ==
    IF i > Len(t) THEN <<>>
    ELSE Bind(RunLen(t, i, {" "}), LAMBDA n :
             IF n >= 2 THEN <<" ">> \o CollapseSpaces(t, i + n)
             ELSE <<t[i]>> \o CollapseSpaces(t, i + 1))

\* the four substitutions, in the order of the source
MutSanitize(t) ==
    Bind(CollapseSpaces(t, 1), LAMBDA t1 :
    Bind(ReplaceBars(t1), LAMBDA t2 :
    Bind(BraceCommands(t2, 1), LAMBDA t3 :
        BraceSingles(t3, 1))))
Sanitize(t) ==
    Bind(ReplaceBars(t), LAMBDA t1 :
    Bind(BraceCommands(t1, 1), LAMBDA t2 :
    Bind(BraceSingles(t2, 1), LAMBDA t3 :
        CollapseSpaces(t3, 1))))

----------------------------------------------------------------------------
(* MathJax_Converter._merge_consecutive_empty_lines *)

\* get_level: 0 for a blank line, the number of '>' for a quote-blank line,
\* -1 for a content line
MutGetLevel(line) ==
    Bind(Strip(line), LAMBDA stripped :
        IF stripped = <<>> THEN 0
        ELSE IF \A k \in 1..Len(stripped) : stripped[k] = ">" THEN Len(stripped)
        ELSE -1)
get_level(line) ==
    Bind(Strip(line), LAMBDA stripped :
    Bind(RemoveChar(stripped, " "), LAMBDA clean :
        IF stripped = <<>> THEN 0
        ELSE IF \A k \in 1..Len(clean) : clean[k] = ">" THEN Len(clean)
        ELSE -1))

\* min(lev for (_, lev) in current_group)
MinLevel(group) ==
    CHOOSE m \in {group[k][2] : k \in 1..Len(group)} :
        \A k \in 1..Len(group) : m <= group[k][2]

\* the line emitted for a run that a content line ends:
\* ("" if min_level == 0 else "> " * min_level).strip()
MidRunLine(group) ==
    Bind(MinLevel(group), LAMBDA min_level :
        Strip(IF min_level = 0 THEN <<>> ELSE Repeat(<<">", " ">>, min_level)))

\* the line emitted for a run that ends the text:
\* "" if min_level == 0 else ">" * min_level
LastRunLine(group) ==
    Bind(MinLevel(group), LAMBDA min_level :
        IF min_level = 0 THEN <<>> ELSE Repeat(<<">">>, min_level))

\* the handling of the last batch of blank lines, after the loop
MutFlushLast(current_group, result) == result
FlushLast(current_group, result) ==
    IF current_group # <<>>
    THEN Append(result, LastRunLine(current_group))
    ELSE result

\* the loop over text.split("\n")
RECURSIVE MergeLoop(_, _, _, _)
MergeLoop(lines, i, current_group, result) ==
    IF i > Len(lines) THEN FlushLast(current_group, result)
    ELSE Bind(lines[i], LAMBDA line :
         Bind(get_level(line), LAMBDA level :
             IF level >= 0
             THEN Bind(Append(current_group, <<line, level>>), LAMBDA g :
                      MergeLoop(lines, i + 1, g, result))
             ELSE IF current_group # <<>>
             THEN Bind(result \o <<MidRunLine(current_group), line>>, LAMBDA r :
                      MergeLoop(lines, i + 1, <<>>, r))
             ELSE Bind(Append(result, line), LAMBDA r :
                      MergeLoop(lines, i + 1, <<>>, r))))

\* re.sub(r'(\n{3,})', '\n\n', processed)
RECURSIVE MutCollapseNewlines(_, _)
MutCollapseNewlines(t, i) ==
    IF i > Len(t) THEN <<>>
    ELSE Bind(RunLen(t, i, {NL}), LAMBDA n :
             IF n >= 2 THEN <<NL>> \o MutCollapseNewlines(t, i + n)
             ELSE <<t[i]>> \o MutCollapseNewlines(t, i + 1))
RECURSIVE CollapseNewlines(_, _)
CollapseNewlines(t, i) ==
    IF i > Len(t) THEN <<>>
    ELSE Bind(RunLen(t, i, {NL}), LAMBDA n :
             IF n >= 3 THEN <<NL, NL>> \o CollapseNewlines(t, i + n)
             ELSE <<t[i]>> \o CollapseNewlines(t, i + 1))

MergedLines(t) ==
    Bind(SplitLines(t), LAMBDA lines : MergeLoop(lines, 1, <<>>, <<>>))

MergeConsecutiveEmptyLines(t) ==
    Bind(MergedLines(t), LAMBDA result :
    Bind(JoinLines(result), LAMBDA processed :
        CollapseNewlines(processed, 1)))

----------------------------------------------------------------------------
(* MathJax_Converter._convert_block_math *)

BeginEquation == <<BS,"b","e","g","i","n","{","e","q","u","a","t","i","o","n","*","}">>
EndEquation == <<BS,"e","n","d","{","e","q","u","a","t","i","o","n","*","}">>

\* the alternatives of group 2 and of group 4, in the order the pattern
\* lists them (the engine tries them in this order)
Openers == <<BeginEquation, <<BS, "[">>, <<"$", "$">>, <<"$", "$", "$">>>>
Closers == <<EndEquation, <<BS, "]">>, <<"$", "$">>, <<"$", "$", "$">>>>

\* ^ under re.MULTILINE
AtLineStart(t, s) == s = 1 \/ t[s - 1] = NL

\* [^\S\n]* followed by (\n|$), tried at position e: the position after the
\* match, or 0 when the tail does not match.  The run is greedy and giving
\* part of it back leaves a blank that is neither a newline nor a line end.
TailEnd(t, e) ==
    Bind(e + RunLen(t, e, WhiteSpace \ {NL}), LAMBDA q :
        IF q > Len(t) THEN q
        ELSE IF t[q] = NL THEN q + 1
        ELSE 0)

\* the first alternative of group 4 that matches at cp with the tail after
\* it; 0 when none does
CloserAt(t, cp) ==
    First({k \in 1..Len(Closers) :
             /\ LitAt(t, cp, Closers[k])
             /\ TailEnd(t, cp + Len(Closers[k])) > 0})

\* (.*?) under re.DOTALL: the nearest position at or after bs where a closer
\* matches; 0 when there is none
BodyEnd(t, bs) == First({cp \in bs..Len(t) : CloserAt(t, cp) > 0})

\* the first alternative of group 2 that matches at p and lets the rest of
\* the pattern match; 0 when none does
OpenerAt(t, p) ==
    First({o \in 1..Len(Openers) :
             /\ LitAt(t, p, Openers[o])
             /\ BodyEnd(t, p + Len(Openers[o])) > 0})

\* the ways (^[> ]*) and \s* can be split before an opener: <<a, b>> with a
\* the length of group 1 and b the length of the \s* run
PrefixSplits(t, s) ==
    {ab \in (0..RunLen(t, s, {">", " "})) \X (0..Len(t)) :
        /\ ab[2] <= RunLen(t, s + ab[1], WhiteSpace)
        /\ OpenerAt(t, s + ab[1] + ab[2]) > 0}

\* both prefix runs are greedy: the longest group 1, then the longest \s*
BestSplit(splits) ==
    CHOOSE x \in splits :
        \A y \in splits : x[1] > y[1] \/ (x[1] = y[1] /\ x[2] >= y[2])

NoMatch == [found |-> FALSE]

\* the groups of the match that starts at s with group 1 of length a and the
\* opener at p
MatchGroups(t, s, a, p) ==
    Bind(OpenerAt(t, p), LAMBDA o :
    Bind(p + Len(Openers[o]), LAMBDA bs :
    Bind(BodyEnd(t, bs), LAMBDA cp :
    Bind(CloserAt(t, cp), LAMBDA k :
    Bind(cp + Len(Closers[k]), LAMBDA ce :
    Bind(TailEnd(t, ce), LAMBDA e :
        [found |-> TRUE,
         start |-> s,
         openpos |-> p,
         group1 |-> Slice(t, s, s + a - 1),
         group2 |-> Openers[o],
         group3 |-> Slice(t, bs, cp - 1),
         group4 |-> Closers[k],
         group5 |-> IF e - 1 >= ce /\ t[e - 1] = NL THEN <<NL>> ELSE <<>>,
         end |-> e]))))))

\* the match of block_pattern that starts at s, groups included
BlockMatchAt(t, s) ==
    IF ~AtLineStart(t, s) THEN NoMatch
    ELSE Bind(PrefixSplits(t, s), LAMBDA splits :
             IF splits = {} THEN NoMatch
             ELSE Bind(BestSplit(splits), LAMBDA ab :
                      MatchGroups(t, s, ab[1], s + ab[1] + ab[2])))

\* _replace_block
ReplaceBlock(m) ==
    Bind(Strip(m.group1), LAMBDA indent :
    Bind(IF indent # <<>> THEN <<" ">> ELSE <<>>, LAMBDA space :
        indent \o <<NL>> \o indent \o space \o math_block_begin
        \o Sanitize(m.group3) \o math_block_end \o indent \o m.group5))

\* block_pattern.sub(_replace_block, text): leftmost matches, left to right,
\* the scan resuming where the previous match ended
RECURSIVE BlockSub(_, _)
BlockSub(t, pos) ==
    IF pos > Len(t) THEN <<>>
    ELSE Bind(BlockMatchAt(t, pos), LAMBDA m :
             IF m.found THEN ReplaceBlock(m) \o BlockSub(t, m.end)
             ELSE <<t[pos]>> \o BlockSub(t, pos + 1))

ConvertBlockMath(t) == BlockSub(t, 1)

\* the matches BlockSub replaces, in order, each with the text emitted for it
RECURSIVE BlockMatches(_, _)
BlockMatches(t, pos) ==
    IF pos > Len(t) THEN <<>>
    ELSE Bind(BlockMatchAt(t, pos), LAMBDA m :
             IF m.found
             THEN <<m @@ [src |-> t, emitted |-> ReplaceBlock(m)]>>
                  \o BlockMatches(t, m.end)
             ELSE BlockMatches(t, pos + 1))

----------------------------------------------------------------------------
(* MathJax_Converter._convert_inline_math *)

\* the wrapper the two lambdas build around the sanitized body
WrapInline(body) ==
    math_inline_surrounding \o Sanitize(body) \o math_inline_surrounding

\* (?<!\\) at position s
NotEscapedAt(t, s) == s = 1 \/ t[s - 1] # BS

\* the nearest closing \) for an opening \( at s, (?<!\\)\\\); 0 when none
ParenCloser(t, s) ==
    First({q \in (s + 2)..Len(t) : LitAt(t, q, <<BS, ")">>) /\ t[q - 1] # BS})

\* the match of (?<!\\)\\\((.*?)(?<!\\)\\\) that starts at s (re.DOTALL)
ParenMatchAt(t, s) ==
    IF NotEscapedAt(t, s) /\ LitAt(t, s, <<BS, "(">>)
    THEN Bind(ParenCloser(t, s), LAMBDA q :
             IF q = 0 THEN NoMatch
             ELSE [found |-> TRUE, start |-> s, close |-> q,
                   group1 |-> Slice(t, s + 2, q - 1), end |-> q + 2])
    ELSE NoMatch

RECURSIVE ParenSub(_, _)
ParenSub(t, pos) ==
    IF pos > Len(t) THEN <<>>
    ELSE Bind(ParenMatchAt(t, pos), LAMBDA m :
             IF m.found THEN WrapInline(m.group1) \o ParenSub(t, m.end)
             ELSE <<t[pos]>> \o ParenSub(t, pos + 1))

\* (?<!\s) before the closing '$' at q
NotAfterSpace(t, q) == t[q - 1] \notin WhiteSpace

\* (?!\$) after the closing '$' at q
NotFollowedByDollar(t, q) == q >= Len(t) \/ t[q + 1] # "$"

\* the next '$' after position s, 0 when there is none
NextDollar(t, s) == First({q \in (s + 1)..Len(t) : t[q] = "$"})

\* the match of (?<!\\)\$(?!\s)([^$]+?)(?<!\s)\$(?!\$) that starts at s.
\* The body holds no '$', so the only closing '$' is the next one after s.
DollarMatchAt(t, s) ==
    IF t[s] = "$" /\ NotEscapedAt(t, s)
    THEN Bind(NextDollar(t, s), LAMBDA q :
             IF /\ q >= s + 2
                /\ t[s + 1] \notin WhiteSpace
                /\ NotAfterSpace(t, q)
                /\ NotFollowedByDollar(t, q)
             THEN [found |-> TRUE, start |-> s, close |-> q,
                   group1 |-> Slice(t, s + 1, q - 1), end |-> q + 1]
             ELSE NoMatch)
    ELSE NoMatch

RECURSIVE DollarSub(_, _)
DollarSub(t, pos) ==
    IF pos > Len(t) THEN <<>>
    ELSE Bind(DollarMatchAt(t, pos), LAMBDA m :
             IF m.found THEN WrapInline(m.group1) \o DollarSub(t, m.end)
             ELSE <<t[pos]>> \o DollarSub(t, pos + 1))

ConvertInlineMath(t) ==
    Bind(ParenSub(t, 1), LAMBDA t1 : DollarSub(t1, 1))

\* the matches DollarSub replaces, in order; src is the text the single-'$'
\* pass runs on (the result of the \(...\) pass)
RECURSIVE DollarMatches(_, _)
DollarMatches(t, pos) ==
    IF pos > Len(t) THEN <<>>
    ELSE Bind(DollarMatchAt(t, pos), LAMBDA m :
             IF m.found
             THEN <<m @@ [src |-> t, emitted |-> WrapInline(m.group1)]>>
                  \o DollarMatches(t, m.end)
             ELSE DollarMatches(t, pos + 1))

InlineMatches(t) ==
    Bind(ParenSub(t, 1), LAMBDA t1 : DollarMatches(t1, 1))

----------------------------------------------------------------------------
(* MathJax_Converter.convert *)

Convert(t) ==
    Bind(ConvertBlockMath(t), LAMBDA t1 :
    Bind(MergeConsecutiveEmptyLines(t1), LAMBDA t2 :
        ConvertInlineMath(t2)))

----------------------------------------------------------------------------
(* file_processor.py: paths, names and the two handlers *)

UpperSeq == <<"A","B","C","D","E","F","G","H","I","J","K","L","M",
              "N","O","P","Q","R","S","T","U","V","W","X","Y","Z">>
LowerSeq == <<"a","b","c","d","e","f","g","h","i","j","k","l","m",
              "n","o","p","q","r","s","t","u","v","w","x","y","z">>
DigitSeq == <<"0","1","2","3","4","5","6","7","8","9">>

\* str.lower()
Lower(t) ==
    [k \in 1..Len(t) |->
        IF t[k] \in UpperCase
        THEN LowerSeq[CHOOSE j \in 1..Len(UpperSeq) : UpperSeq[j] = t[k]]
        ELSE t[k]]

\* position of the last '.' of a name, 0 when it has none
LastDot(name) ==
    LET ds == {k \in 1..Len(name) : name[k] = "."}
    IN  IF ds = {} THEN 0 ELSE CHOOSE k \in ds : \A j \in ds : j <= k

\* os.path.splitext(...)[1] of a file name: from the last dot, unless the
\* name has only leading dots
SplitExt(name) ==
    LET d == LastDot(name)
    IN  IF d > RunLen(name, 1, {"."}) THEN Slice(name, d, Len(name))
        ELSE <<>>

\* pathlib: Path(name).suffix and Path(name).stem
Suffix(name) ==
    LET d == LastDot(name)
    IN  IF 1 < d /\ d < Len(name) THEN Slice(name, d, Len(name)) ELSE <<>>
Stem(name) ==
    LET d == LastDot(name)
    IN  IF 1 < d /\ d < Len(name) THEN Slice(name, 1, d - 1) ELSE name

\* f"{counter}"
RECURSIVE Decimal(_)
Decimal(n) ==
    IF n < 10 THEN <<DigitSeq[n + 1]>>
    ELSE Decimal(n \div 10) \o <<DigitSeq[(n % 10) + 1]>>

\* re.sub(cls+, repl, t): every maximal run of characters of cls becomes repl
RECURSIVE ReplaceRuns(_, _, _, _)
ReplaceRuns(t, i, cls, repl) ==
    IF i > Len(t) THEN <<>>
    ELSE LET n == RunLen(t, i, cls)
         IN  IF n >= 1 THEN repl \o ReplaceRuns(t, i + n, cls, repl)
             ELSE <<t[i]>> \o ReplaceRuns(t, i + 1, cls, repl)

\* str.strip(chars)
StripChars(t, cls) ==
    LET a == RunLen(t, 1, cls)
        idx == {i \in 1..Len(t) : t[i] \notin cls}
        last == IF idx = {} THEN 0 ELSE CHOOSE i \in idx : \A j \in idx : j <= i
    IN  Slice(t, a + 1, last)

\* metadata['title'] = re.sub(r':+', '-', metadata['title']).strip()
NormalizeTitle(title) == Strip(ReplaceRuns(title, 1, {":"}, <<"-">>))

\* _generate_filename: f"{date_str}-{title_slug}.md"
SlugClass == {BS, "/", ":", "*", "?", "\"", "<", ">", "|"} \cup WhiteSpace
GenerateFilename(date, title) ==
    date \o <<"-">>
    \o StripChars(Strip(ReplaceRuns(title, 1, SlugClass, <<"-">>)), {"-"})
    \o <<".", "m", "d">>

\* re.search(r'^#\s+(.+)$', content, re.MULTILINE): a '#' at a line start,
\* one or more blanks (newlines included), then a character that is not a
\* newline
HasHeading(content) ==
    \E s \in 1..Len(content) :
        /\ AtLineStart(content, s)
        /\ content[s] = "#"
        /\ \E k \in 1..RunLen(content, s + 1, WhiteSpace) :
              s + k + 1 <= Len(content) /\ content[s + k + 1] # NL

\* the while loop of _handle_pdf: the first free name among name,
\* stem_1suffix, stem_2suffix, ...
RECURSIVE NextFree(_, _, _, _)
NextFree(dir, pdf_name, dest_path, counter) ==
    IF dest_path \in DOMAIN dir
    THEN NextFree(dir, pdf_name,
                  Stem(pdf_name) \o <<"_">> \o Decimal(counter) \o Suffix(pdf_name),
                  counter + 1)
    ELSE dest_path

MutResolveName(dir, pdf_name) ==
    IF pdf_name \in DOMAIN dir
    THEN Stem(pdf_name) \o <<"_">> \o Decimal(1) \o Suffix(pdf_name)
    ELSE pdf_name
ResolveName(dir, pdf_name) == NextFree(dir, pdf_name, pdf_name, 1)

\* dir with the file name written (created or overwritten)
WriteFile(dir, name, content) ==
    [n \in DOMAIN dir \cup {name} |-> IF n = name THEN content ELSE dir[n]]

NoRaise == "none"

\* _handle_markdown: raises when there is no level-1 heading, else returns
\* the front matter; the assets directory is not touched
HandleMarkdown(f, title, dir) ==
    IF ~HasHeading(f.content)
    THEN [raised |-> "ValueError: no heading", assets |-> dir, dest |-> <<>>,
          front |-> <<>>]
    ELSE [raised |-> NoRaise, assets |-> dir, dest |-> <<>>,
          front |-> [kind |-> "post", title |-> title, date |-> f.date,
                     redirect |-> <<>>]]

\* _handle_pdf: copies the file under the first free name and returns the
\* redirect front matter
HandlePdf(f, title, dir, opid) ==
    LET dest == ResolveName(dir, f.name)
    IN  [raised |-> NoRaise,
         assets |-> WriteFile(dir, dest, [content |-> f.content, op |-> opid]),
         dest |-> dest,
         front |-> [kind |-> "redirect", title |-> title, date |-> f.date,
                    redirect |-> dest]]

\* the dispatch on the extension in process_file
Dispatch(f, title, dir, opid) ==
    LET ext == SplitExt(Lower(f.name))
    IN  IF ext = <<".", "m", "d">> THEN HandleMarkdown(f, title, dir)
        ELSE IF ext = <<".", "p", "d", "f">> THEN HandlePdf(f, title, dir, opid)
        ELSE [raised |-> "ValueError: unsupported type", assets |-> dir,
              dest |-> <<>>, front |-> <<>>]

\* os.makedirs(output_dir, exist_ok=True) and the write of the output file
WriteOutput(od, filename, front, opid) ==
    [exists |-> TRUE,
     files |-> WriteFile(od.files, filename, [front |-> front, op |-> opid])]

\* what process_file does to the output directory, given the handler's result
MutOutputAfter(od, h, filename, opid) ==
    IF h.raised # NoRaise THEN [exists |-> TRUE, files |-> od.files]
    ELSE WriteOutput(od, filename, h.front, opid)
OutputAfter(od, h, filename, opid) ==
    IF h.raised # NoRaise THEN od
    ELSE WriteOutput(od, filename, h.front, opid)

----------------------------------------------------------------------------
(* Bounds and the inputs drawn under them *)

MaxSanTokens == 4
MaxMergeLen == 6
MaxBlockTokens == 4
MaxInlineTokens == 4
MaxPlainLen == 4
MaxOps == 3

\* the texts made of at most n tokens of toks
TokenTexts(toks, n) ==
    {Flatten(ts) : ts \in UNION {[1..k -> toks] : k \in 0..n}}

SanTokens == {<<"|">>, <<"_">>, <<"^">>, <<BS>>, <<"a">>, <<"1">>, <<" ">>,
              <<"{">>, <<"}">>}
SanInputs == TokenTexts(SanTokens, MaxSanTokens)

MergeTokens == {<<">">>, <<" ">>, <<"a">>, <<NL>>}
MergeInputs == TokenTexts(MergeTokens, MaxMergeLen)

\* texts with display math, texts with inline math, texts with no math
BlockTokens == {<<"$", "$">>, <<"a">>, <<NL>>, <<">">>, <<" ">>,
                <<BS, "[">>, <<BS, "]">>}
InlineTokens == {<<"$">>, <<"a">>, <<NL>>, <<" ">>, <<BS, "(">>, <<BS, ")">>}
PlainTokens == {<<"a">>, <<NL>>, <<">">>, <<" ">>, <<"_">>, <<"|">>}
\* texts with the three-dollar display delimiter
TripleTokens == {<<"$", "$", "$">>, <<"a">>, <<NL>>, <<">">>, <<" ">>}
ConvInputs ==
    TokenTexts(BlockTokens, MaxBlockTokens)
    \cup TokenTexts(TripleTokens, MaxBlockTokens)
    \cup TokenTexts(InlineTokens, MaxInlineTokens)
    \cup TokenTexts(PlainTokens, MaxPlainLen)

Date1 == <<"2","0","1","2","-","0","3","-","1","2">>
NameA == <<"a", ".", "p", "d", "f">>
NameA1 == <<"a", "_", "1", ".", "p", "d", "f">>
NameA2 == <<"a", "_", "2", ".", "p", "d", "f">>

\* the files process_file is called on: two PDFs named a.pdf (in different
\* directories), one already called a_1.pdf, one with an upper-case
\* extension, Markdown files with and without a heading, a text file
InputFiles ==
    {[name |-> NameA, content |-> <<"p">>, date |-> Date1],
     [name |-> NameA, content |-> <<"q">>, date |-> Date1],
     [name |-> NameA1, content |-> <<"r">>, date |-> Date1],
     [name |-> <<"b", ".", "P", "D", "F">>, content |-> <<"s">>, date |-> Date1],
     [name |-> <<"a", ".", "t", "x", "t">>, content |-> <<"#", " ", "a">>, date |-> Date1],
     [name |-> <<"a">>, content |-> <<"#", " ", "a">>, date |-> Date1]}
    \cup {[name |-> <<"a", ".", "m", "d">>, content |-> c, date |-> Date1] :
            c \in {<<"#", " ", "a">>, <<"a", NL, "#", NL, "a">>, <<"#", "a">>,
                   <<"a", " ", "#", " ", "a">>, <<"#", " ">>, <<>>}}

Titles == {<<"a">>, <<"a", ":", " ", "b">>}

\* what the assets directory may hold before the first call
InitialAssets ==
    {[n \in ns |-> [content |-> <<"o">>, op |-> 0]] : ns \in SUBSET {NameA1, NameA2}}

----------------------------------------------------------------------------
(* State machine *)

NoOp == [kind |-> "none"]
NoDir == [exists |-> FALSE, files |-> <<>>]

NoFileState ==
    /\ assets = <<>>
    /\ outdir = NoDir
    /\ opcount = 0
    /\ pdfcount = 0
    /\ lastop = NoOp

NoTextState ==
    /\ input = <<>>
    /\ text = <<>>
    /\ prev = <<>>
    /\ matches = <<>>

FilesUnchanged == UNCHANGED <<assets, outdir, opcount, pdfcount, lastop>>

\* one call of _sanitize_special_chars on the current text
SanitizeCall ==
    /\ pc \in {"san0", "san1"}
    /\ prev' = text
    /\ text' = Sanitize(text)
    /\ pc' = IF pc = "san0" THEN "san1" ELSE "san2"
    /\ UNCHANGED <<input, matches>>
    /\ FilesUnchanged

\* one call of _merge_consecutive_empty_lines on the current text
MergeCall ==
    /\ pc \in {"merge0", "merge1"}
    /\ prev' = text
    /\ text' = MergeConsecutiveEmptyLines(text)
    /\ pc' = IF pc = "merge0" THEN "merge1" ELSE "merge2"
    /\ UNCHANGED <<input, matches>>
    /\ FilesUnchanged

\* convert, line 86: text = self._convert_block_math(input_text)
BlockStep ==
    /\ pc = "block"
    /\ prev' = text
    /\ text' = ConvertBlockMath(text)
    /\ matches' = BlockMatches(text, 1)
    /\ pc' = "merge"
    /\ UNCHANGED input
    /\ FilesUnchanged

\* convert, line 87: text = _merge_consecutive_empty_lines(text)
MergeStep ==
    /\ pc = "merge"
    /\ prev' = text
    /\ text' = MergeConsecutiveEmptyLines(text)
    /\ matches' = <<>>
    /\ pc' = "inline"
    /\ UNCHANGED input
    /\ FilesUnchanged

\* convert, line 88: text = self._convert_inline_math(text)
InlineStep ==
    /\ pc = "inline"
    /\ prev' = text
    /\ text' = ConvertInlineMath(text)
    /\ matches' = InlineMatches(text)
    /\ pc' = "done"
    /\ UNCHANGED input
    /\ FilesUnchanged

\* FileProcessor.process_file(f, output_dir, {title: ...})
ProcessFile(f, title0) ==
    /\ pc = "files"
    /\ opcount < MaxOps
    /\ \E title \in {NormalizeTitle(title0)}, opid \in {opcount + 1} :
       \E h \in {Dispatch(f, title, assets, opid)},
          filename \in {GenerateFilename(f.date, title)} :
           /\ assets' = h.assets
           /\ outdir' = OutputAfter(outdir, h, filename, opid)
           /\ opcount' = opid
           /\ pdfcount' = IF h.dest # <<>> THEN pdfcount + 1 ELSE pdfcount
           /\ lastop' = [kind |-> "process_file",
                         name |-> f.name,
                         raised |-> h.raised,
                         dest |-> h.dest,
                         filename |-> filename,
                         assetsBefore |-> assets,
                         outdirBefore |-> outdir]
    /\ UNCHANGED <<input, text, prev, pc, matches>>

InitSanitize ==
    /\ input \in SanInputs
    /\ text = input
    /\ prev = input
    /\ matches = <<>>
    /\ pc = "san0"
    /\ NoFileState

InitMerge ==
    /\ input \in MergeInputs
    /\ text = input
    /\ prev = input
    /\ matches = <<>>
    /\ pc = "merge0"
    /\ NoFileState

InitConvert ==
    /\ input \in ConvInputs
    /\ text = input
    /\ prev = input
    /\ matches = <<>>
    /\ pc = "block"
    /\ NoFileState

InitFiles ==
    /\ NoTextState
    /\ pc = "files"
    /\ assets \in InitialAssets
    /\ outdir = NoDir
    /\ opcount = 0
    /\ pdfcount = 0
    /\ lastop = NoOp

NextSanitize == SanitizeCall
NextMerge == MergeCall
NextConvert == BlockStep \/ MergeStep \/ InlineStep
NextFiles == \E f \in InputFiles, title0 \in Titles : ProcessFile(f, title0)

SpecSanitize == InitSanitize /\ [][NextSanitize]_vars
SpecMerge == InitMerge /\ [][NextMerge]_vars
SpecConvert == InitConvert /\ [][NextConvert]_vars
SpecFiles == InitFiles /\ [][NextFiles]_vars

Init == InitSanitize \/ InitMerge \/ InitConvert \/ InitFiles
Next == NextSanitize \/ NextMerge \/ NextConvert \/ NextFiles
Spec == Init /\ [][Next]_vars

----------------------------------------------------------------------------
(* Vocabulary of the properties *)

Min(a, b) == IF a < b THEN a ELSE b

\* a blank line: whitespace only
BlankLine(l) == \A k \in 1..Len(l) : l[k] \in WhiteSpace

\* a quote-blank line: after trimming, only '>' and spaces, at least one '>'
QuoteBlankLine(l) ==
    /\ ~BlankLine(l)
    /\ \A k \in 1..Len(Strip(l)) : Strip(l)[k] \in {">", " "}

RunLine(l) == BlankLine(l) \/ QuoteBlankLine(l)

\* the number of '>' of a line
QuoteDepth(l) == Cardinality({k \in 1..Len(l) : l[k] = ">"})

\* stands for one maximal run of blank/quote-blank lines (no line holds a
\* newline, so no line equals it)
RunMark == <<NL>>

\* the lines with every maximal run replaced by one RunMark
RECURSIVE Skeleton(_, _)
Skeleton(ls, inRun) ==
    IF ls = <<>> THEN <<>>
    ELSE IF RunLine(Head(ls))
    THEN (IF inRun THEN <<>> ELSE <<RunMark>>) \o Skeleton(Tail(ls), TRUE)
    ELSE <<Head(ls)>> \o Skeleton(Tail(ls), FALSE)

\* the lines with every maximal run replaced by the line the specification
\* gives for it: depth times '>', depth the least depth of the run (cur is
\* the least depth of the run under way, -1 outside a run)
RECURSIVE ShallowestMerge(_, _)
ShallowestMerge(ls, cur) ==
    IF ls = <<>>
    THEN IF cur >= 0 THEN <<Repeat(<<">">>, cur)>> ELSE <<>>
    ELSE IF RunLine(Head(ls))
    THEN ShallowestMerge(Tail(ls),
                         IF cur = -1 THEN QuoteDepth(Head(ls))
                         ELSE Min(cur, QuoteDepth(Head(ls))))
    ELSE (IF cur >= 0 THEN <<Repeat(<<">">>, cur)>> ELSE <<>>)
         \o <<Head(ls)>> \o ShallowestMerge(Tail(ls), -1)

HasChar(t, cls) == \E k \in 1..Len(t) : t[k] \in cls

HasDoubleSpace(t) == \E k \in 1..Len(t) : LitAt(t, k, <<" ", " ">>)

\* number of places where lit stands in t
Occurrences(t, lit) == Cardinality({k \in 1..Len(t) : LitAt(t, k, lit)})

----------------------------------------------------------------------------
(* Blank-line merger *)

\* C1: the merger emits one line for each maximal run of blank/quote-blank
\* lines, whatever the mix, and every content line unchanged and in order;
\* the output has no two adjacent blank/quote-blank lines.
C1_OneLinePerRun ==
    pc = "merge1" =>
        LET inL == SplitLines(input)
            outL == SplitLines(text)
        IN  /\ Skeleton(outL, FALSE) = Skeleton(inL, FALSE)
            /\ Len(outL) = Len(Skeleton(inL, FALSE))
            /\ \A k \in 1..(Len(outL) - 1) :
                  ~(RunLine(outL[k]) /\ RunLine(outL[k + 1]))

\* a run mixing a quote-blank and a blank line, between two content lines,
\* has been merged
C1_Witness ==
    /\ pc = "merge1"
    /\ \E k \in 1..(Len(SplitLines(input)) - 3) :
          /\ ~RunLine(SplitLines(input)[k])
          /\ QuoteBlankLine(SplitLines(input)[k + 1])
          /\ BlankLine(SplitLines(input)[k + 2])
          /\ ~RunLine(SplitLines(input)[k + 3])
    /\ Len(SplitLines(text)) = Len(SplitLines(input)) - 1

\* C2: the line emitted for a run is empty if the run holds a line of depth
\* 0, else exactly depth times '>' for the least depth of the run, for a run
\* before a content line and for a run that ends the text alike.
C2_RunLineIsShallowest ==
    pc = "merge1" =>
        SplitLines(text) = ShallowestMerge(SplitLines(input), -1)

\* C12: merging a merged text changes nothing; the line emitted for a run
\* is classified by get_level as a blank/quote-blank line of the run's least
\* depth; and on a merged text the pass that collapses three or more
\* newlines changes nothing.
C12_MergeIdempotent ==
    /\ pc = "merge1" =>
          LET inL == SplitLines(input)
              outL == SplitLines(text)
              skel == Skeleton(inL, FALSE)
              specL == ShallowestMerge(inL, -1)
              joined == JoinLines(MergedLines(text))
          IN  /\ Len(outL) = Len(skel)
              /\ \A k \in 1..Len(outL) :
                    skel[k] = RunMark =>
                        get_level(outL[k]) = QuoteDepth(specL[k])
              /\ CollapseNewlines(joined, 1) = joined
    /\ pc = "merge2" => text = prev

\* a text whose run of depth 2 before a content line was merged to "> >",
\* merged again
C12_Witness ==
    /\ pc = "merge2"
    /\ prev # input
    /\ \E k \in 1..(Len(SplitLines(prev)) - 1) :
          /\ SplitLines(prev)[k] = <<">", " ", ">">>
          /\ ~RunLine(SplitLines(prev)[k + 1])
    /\ text = prev

----------------------------------------------------------------------------
(* Character sanitizer *)

\* C4: after the sanitizer no '_' or '^' is directly followed by an
\* unwrapped backslash identifier (a backslash and letters), whatever follows
\* the identifier, nor by an unwrapped single character that is not a space,
\* a brace or a backslash.
C4_ScriptArgumentsBraced ==
    pc = "san1" =>
        \A i \in 1..(Len(text) - 1) :
            text[i] \in {"_", "^"} =>
                /\ ~(/\ text[i + 1] = BS
                     /\ i + 2 <= Len(text)
                     /\ text[i + 2] \in Letter)
                /\ text[i + 1] \in WhiteSpace \cup {"{", "}", BS}

\* no '|', and every '_' or '^' is followed by a brace or a blank, or ends
\* the text: there is no bare argument
NoBareScript(t) ==
    /\ ~HasChar(t, {"|"})
    /\ \A i \in 1..Len(t) :
          t[i] \in {"_", "^"} /\ i < Len(t) =>
              t[i + 1] \in WhiteSpace \cup {"{", "}"}

Braces(t) == SelectSeq(t, LAMBDA c : c \in {"{", "}"})

\* C5: on a text with no '|' and no bare '_'/'^' argument a second pass of
\* the sanitizer changes nothing, the braces of the input are kept as they
\* are, and a text with no run of spaces comes back unchanged.
C5_IdempotentOnBraced ==
    NoBareScript(input) =>
        /\ pc = "san1" =>
              /\ Braces(text) = Braces(input)
              /\ ~HasDoubleSpace(input) => text = input
        /\ pc = "san2" => text = prev

\* an already-braced script has gone through both passes
C5_Witness ==
    /\ pc = "san2"
    /\ NoBareScript(input)
    /\ \E i \in 1..Len(input), c \in {"_", "^"} :
          LitAt(input, i, <<c, "{", "1", "}">>)
    /\ text = input

----------------------------------------------------------------------------
(* convert: block normalizer, blank-line merger, inline normalizer *)

NoDelimiters(t) == ~HasChar(t, {"$", BS})

\* C3: on a text with no '$' and no backslash the block normalizer and the
\* inline normalizer change nothing, and convert returns the input with its
\* runs of blank/quote-blank lines collapsed: the content lines unchanged and
\* in order, one line per run, nothing else.
C3_PlainTextOnlyCollapsed ==
    NoDelimiters(input) =>
        /\ pc = "merge" => text = input
        /\ pc = "done" =>
              LET inL == SplitLines(input)
                  outL == SplitLines(text)
              IN  /\ text = prev
                  /\ Skeleton(outL, FALSE) = Skeleton(inL, FALSE)
                  /\ Len(outL) = Len(Skeleton(inL, FALSE))

\* a text with a sanitizer-sensitive character and a run of two blank lines
\* has gone through convert
C3_Witness ==
    /\ pc = "done"
    /\ NoDelimiters(input)
    /\ HasChar(input, {"_", "|"})
    /\ \E k \in 1..Len(input) : LitAt(input, k, <<NL, NL>>)
    /\ text # input

\* the quote markers at the start of the line that holds position pos
QuotePrefixOfLine(t, pos) ==
    LET ls == Last({k \in 1..pos : AtLineStart(t, k)})
    IN  Strip(Slice(t, ls, ls + RunLen(t, ls, {">", " "}) - 1))

\* C7: the text emitted for a display-math match is p, newline, p, a space
\* only if p is not empty, block_begin, the sanitized body, block_end, p and
\* the captured newline, p being the quote markers at the start of the line
\* on which the opening delimiter stands.
C7_BlockKeepsQuoteOfOpeningLine ==
    pc = "merge" =>
        \A k \in 1..Len(matches) :
            LET m == matches[k]
                p == QuotePrefixOfLine(m.src, m.openpos)
            IN  m.emitted =
                    p \o <<NL>> \o p \o (IF p # <<>> THEN <<" ">> ELSE <<>>)
                    \o math_block_begin \o Sanitize(m.group3)
                    \o math_block_end \o p \o m.group5

\* a '$' that touches another '$'
InDoubleDollar(t, i) ==
    \/ (i > 1 /\ t[i - 1] = "$")
    \/ (i < Len(t) /\ t[i + 1] = "$")

\* C8: no match of the single-'$' pass opens or closes on a '$' that is
\* directly adjacent to another '$'.
C8_InlineNeverTakesDoubleDollar ==
    pc = "done" =>
        \A k \in 1..Len(matches) :
            /\ ~InDoubleDollar(matches[k].src, matches[k].start)
            /\ ~InDoubleDollar(matches[k].src, matches[k].close)

TripleDollar == <<"$", "$", "$">>

\* a display-math region written with the three-dollar delimiters, on lines
\* of its own: the opening marker at o, after the quote markers of its line,
\* the closing marker at c, at the end of its line, a body between them that
\* is not empty and holds no '$'
ThreeDollarRegion(t, o, c) ==
    /\ \E s \in 1..o : AtLineStart(t, s) /\ o = s + RunLen(t, s, {">", " "})
    /\ LitAt(t, o, TripleDollar)
    /\ c > o + 3
    /\ ~HasChar(Slice(t, o + 3, c - 1), {"$"})
    /\ LitAt(t, c, TripleDollar)
    /\ TailEnd(t, c + 3) > 0

\* C11: a region written '$$$', body, '$$$' (the only '$' of the text) is
\* matched with '$$$' as its opening and as its closing delimiter, the
\* captured body is the text between the two markers, and the emitted block
\* holds no '$' but those of block_begin and block_end.
C11_ThreeDollarDelimiters ==
    pc = "merge" /\ Occurrences(prev, <<"$">>) = 6 /\ ~HasChar(prev, {BS}) =>
        \A o, c \in 1..Len(prev) :
            ThreeDollarRegion(prev, o, c) =>
                \E k \in 1..Len(matches) :
                    /\ matches[k].openpos = o
                    /\ matches[k].group2 = TripleDollar
                    /\ matches[k].group3 = Slice(prev, o + 3, c - 1)
                    /\ matches[k].group4 = TripleDollar
                    /\ Occurrences(matches[k].emitted, <<"$">>)
                         = Occurrences(math_block_begin, <<"$">>)
                           + Occurrences(math_block_end, <<"$">>)

----------------------------------------------------------------------------
(* File pipeline *)

\* C9: a process_file call that raises, for a Markdown input with no
\* level-1 heading or for an extension that is neither .md nor .pdf, leaves
\* the output directory as it was: not created, no file added or rewritten.
C9_FailureWritesNothing ==
    lastop.kind = "process_file" /\ lastop.raised # NoRaise =>
        /\ lastop.raised \in {"ValueError: no heading",
                              "ValueError: unsupported type"}
        /\ outdir = lastop.outdirBefore
        /\ assets = lastop.assetsBefore

\* a Markdown file with no heading was refused after an earlier call had
\* written the very output file this call would have written
C9_Witness ==
    /\ lastop.kind = "process_file"
    /\ lastop.raised = "ValueError: no heading"
    /\ outdir.exists
    /\ lastop.filename \in DOMAIN outdir.files

\* stem_k.suffix
Numbered(name, k) == Stem(name) \o <<"_">> \o Decimal(k) \o Suffix(name)

\* C10: a PDF copy never lands on a file the assets directory already held:
\* it goes to name.pdf if that is free, else to name_k.pdf for the least
\* k >= 1 that is free; every file held before is still there, unchanged;
\* the call does not raise; and the copies made so far are as many distinct
\* files.
C10_CopyNeverOverwrites ==
    /\ lastop.kind = "process_file" /\ lastop.dest # <<>> =>
          LET before == lastop.assetsBefore
              taken == {k \in 1..(Cardinality(DOMAIN before) + 1) :
                           Numbered(lastop.name, k) \in DOMAIN before}
              free == (1..(Cardinality(DOMAIN before) + 1)) \ taken
          IN  /\ lastop.raised = NoRaise
              /\ lastop.dest \notin DOMAIN before
              /\ DOMAIN assets = DOMAIN before \cup {lastop.dest}
              /\ \A n \in DOMAIN before : assets[n] = before[n]
              /\ lastop.dest =
                    IF lastop.name \notin DOMAIN before THEN lastop.name
                    ELSE Numbered(lastop.name,
                                  CHOOSE k \in free : \A j \in free : k <= j)
    /\ pc = "files" =>
          Cardinality({n \in DOMAIN assets : assets[n].op # 0}) = pdfcount

\* a.pdf, a_1.pdf and a_2.pdf were taken: the copy went to a_3.pdf
C10_Witness ==
    /\ lastop.kind = "process_file"
    /\ lastop.name = NameA
    /\ {NameA, NameA1, NameA2} \subseteq DOMAIN lastop.assetsBefore
    /\ lastop.dest = Numbered(NameA, 3)

====
